---- MODULE Spec2Model ----
(***************************************************************************)
(* Verification model of the backtesting pipeline (backtester/*.py).       *)
(*                                                                         *)
(* Numbers.  Python floats are modelled as exact rationals <<n, d>> in     *)
(* lowest terms (d > 0) plus the distinguished value NaN; arithmetic with  *)
(* NaN yields NaN, as IEEE arithmetic does.  Rounding is not modelled.     *)
(***************************************************************************)
EXTENDS Integers, Sequences, FiniteSets, TLC

(* ------------------------------ bounds --------------------------------- *)
\* length of the panel's date axis
NumDates == 2
\* longest signal stream handed to Backtester.run
MaxSignals == 3

(* ------------------------------ numbers -------------------------------- *)
\* a float that is not a number (denominator 0), and the value standing for a
\* (date, ticker) key that the panel does not have
NaN == <<0, 0>>
NoRow == <<0, -1>>

Abs(x) == IF x < 0 THEN -x ELSE x

RECURSIVE GCD(_, _)
GCD(a, b) == IF b = 0 THEN a ELSE GCD(b, a % b)

\* the rational n/d in lowest terms with a positive denominator
Norm(n, d) ==
    LET g == GCD(Abs(n), Abs(d))
        s == IF d < 0 THEN -1 ELSE 1
    IN  <<(s * n) \div g, (s * d) \div g>>

R(n) == <<n, 1>>
Frac(n, d) == Norm(n, d)

isnan(x) == x = NaN

FAdd(x, y) ==
    IF isnan(x) \/ isnan(y) THEN NaN
    ELSE LET g == GCD(x[2], y[2])
         IN  Norm(x[1] * (y[2] \div g) + y[1] * (x[2] \div g), (x[2] \div g) * y[2])

FNeg(x) == IF isnan(x) THEN NaN ELSE <<-x[1], x[2]>>

FSub(x, y) == FAdd(x, FNeg(y))

FMul(x, y) ==
    IF isnan(x) \/ isnan(y) THEN NaN
    ELSE LET a == Norm(x[1], y[2])
             b == Norm(y[1], x[2])
         IN  Norm(a[1] * b[1], a[2] * b[2])

\* x / y for y # 0
FDiv(x, y) ==
    IF isnan(x) \/ isnan(y) THEN NaN
    ELSE FMul(x, Norm(y[2], y[1]))

FLt(x, y) == ~isnan(x) /\ ~isnan(y) /\ x[1] * y[2] < y[1] * x[2]
FPos(x) == ~isnan(x) /\ x[1] > 0

(* --------------------------- input universes --------------------------- *)
\* instrument axis of the panel, in sorted order
Tickers == <<"A", "B">>
\* every ticker a signal may name ("Z" is not in the panel), in sorted order
SignalTickers == <<"A", "B", "Z">>

SeqRange(s) == {s[i] : i \in DOMAIN s}

\* close cells an instrument may have on a date
CloseCells(t) ==
    IF t = "A" THEN {NaN, R(1), R(2)} ELSE {R(4)}

Panels == [1..NumDates -> {row \in [SeqRange(Tickers) -> {NaN, NoRow, R(1), R(2), R(4)}] :
                              \A t \in SeqRange(Tickers) : row[t] \in CloseCells(t)}]

CashStarts == {R(1000)}
Slippages == {Frac(1, 4)}
Commissions == {R(0), Frac(1, 100)}

\* what a signal stream may hold: enter and exit for "A" and enter for "B" on
\* every date of the panel, and three entries the strategy contract excludes:
\* a date the panel lacks, an instrument the panel lacks and a direction that
\* is neither +1 nor -1
SignalEntries ==
    [date : 1..NumDates, ticker : {"A"}, signal : {1, -1}]
    \cup [date : 1..NumDates, ticker : {"B"}, signal : {1}]
    \cup {[date |-> NumDates + 1, ticker |-> "A", signal |-> 1],
          [date |-> 1, ticker |-> "Z", signal |-> 1],
          [date |-> 1, ticker |-> "A", signal |-> 0]}

\* streams listed in date order, as Strategy.generate_signals emits them
SignalStreams ==
    UNION {{s \in [1..n -> SignalEntries] :
              \A i \in 1..(n - 1) : s[i].date <= s[i + 1].date} : n \in 0..MaxSignals}

(* ------------------------------ Backtester ----------------------------- *)
\* panel, cash_start, slippage, commission: the fields set by __init__.
\* signals: the argument of run.  cash, positions, equity: the locals of run.
\* di: index of the date the loop of line 17 is at.  pending: the groups of
\* that date's signals the loop of line 22 has not reached yet.
\* History, for stating properties: last is the step just taken with the cash
\* and positions before it; honoured tells whether a trade was made on the
\* current date; trace holds cash and positions at the end of each past date.
VARIABLES panel, cash_start, slippage, commission,
          signals, pc, di, pending, cash, positions, equity,
          last, honoured, trace

\* BreadthCalculator.  data: DataHandler.data, the close of every loaded
\* ticker on every date of its own index.  fill_pad: whether the installed
\* pandas forward-fills in pct_change() (its default up to 2.x) or not.
\* bcall: the call made, with its arguments.  bresult: what the call returned
\* or raised.
VARIABLES data, fill_pad, bcall, bresult

btvars == <<panel, cash_start, slippage, commission,
            signals, pc, di, pending, cash, positions, equity,
            last, honoured, trace>>

brvars == <<data, fill_pad, bcall, bresult>>

\* RankingHandler.get_top_n.  metric: the metric table handed to the call, one
\* row per date of its index.  rcall: the call made, with n and date (0: no
\* date given).  rresult: the date the call selected and the series returned.
VARIABLES metric, rcall, rresult

rkvars == <<metric, rcall, rresult>>

\* DataHandler.get_panel over data.  gcall: the call made.  gpanel: the rows
\* of the returned frame in index order.
VARIABLES gcall, gpanel

gpvars == <<gcall, gpanel>>

\* KPIReport.  equity_curve: the equity column of the curve handed to the constructor.
\* kpi: what summary() returned or raised.
VARIABLES equity_curve, kpi

kpvars == <<equity_curve, kpi>>

vars == <<btvars, brvars, rkvars, gpvars, kpvars>>

NoPositions == [t \in {} |-> <<R(0), R(0)>>]

\* sorted(set(self.panel.index.get_level_values(0)))
dates(pnl) ==
    LET ds == {d \in DOMAIN pnl : \E t \in DOMAIN pnl[d] : pnl[d][t] # NoRow}
    IN  SelectSeq([i \in 1..NumDates |-> i], LAMBDA d : d \in ds)

\* signals.loc[signals.index.get_level_values(0) == dt]
todays_signals(sigs, dt) == SelectSeq(sigs, LAMBDA e : e.date = dt)

\* a lookup that raises KeyError for a missing key (the result NoRow stands
\* for the exception)
PriceGetNoDefault(pnl, dt, t, default) ==
    IF t \in DOMAIN pnl[dt] THEN pnl[dt][t] ELSE NoRow

\* todays_prices.get(t, default) with todays_prices = self.panel.loc[dt]["close"]
PriceGet(pnl, dt, t, default) ==
    IF t \in DOMAIN pnl[dt] /\ pnl[dt][t] # NoRow THEN pnl[dt][t] ELSE default

\* groups visited in the order the entries are listed
GroupsInStreamOrder(sigs, dt) ==
    LET today == todays_signals(sigs, dt)
        firsts == SelectSeq([i \in DOMAIN today |-> i],
                            LAMBDA i : \A j \in 1..(i - 1) : today[j].ticker # today[i].ticker)
    IN  [k \in DOMAIN firsts |-> today[firsts[k]].ticker]

\* keys of todays_signals.groupby("ticker"), which iterates in sorted key order
Groups(sigs, dt) ==
    SelectSeq(SignalTickers,
              LAMBDA t : \E i \in DOMAIN sigs : sigs[i].date = dt /\ sigs[i].ticker = t)

\* row["signal"].iloc[0] of the group of ticker t
FirstSignal(sigs, dt, t) ==
    LET g == SelectSeq(sigs, LAMBDA e : e.date = dt /\ e.ticker = t)
    IN  g[1].signal

\* an enter signal is acted on even when the instrument is held
OutcomeReenter(pos, sig, price, t) ==
    IF price = NoRow THEN "raise"
    ELSE IF isnan(price) THEN "skip"
    ELSE IF sig = 1 THEN "enter"
    ELSE IF sig = -1 /\ t \in DOMAIN pos THEN "exit"
    ELSE "drop"

\* the branch of lines 25-34 taken for the group of ticker t
Outcome(pos, sig, price, t) ==
    IF price = NoRow THEN "raise"
    ELSE IF isnan(price) THEN "skip"
    ELSE IF sig = 1 /\ t \notin DOMAIN pos THEN "enter"
    ELSE IF sig = -1 /\ t \in DOMAIN pos THEN "exit"
    ELSE "drop"

\* line 28
EnterQty(c, price) == FDiv(c, FMul(R(10), price))

\* the commission charged on top of the slippage
EnterCostWithCommission(qty, price, slip, comm) ==
    FMul(FMul(qty, price), FAdd(FAdd(R(1), slip), comm))

\* the whole cash spent on one position
EnterCostAllCash(qty, price, slip, comm) ==
    FMul(FMul(FMul(qty, price), FAdd(R(1), slip)), R(10))

\* line 29
EnterCost(qty, price, slip, comm) == FMul(FMul(qty, price), FAdd(R(1), slip))

\* the slippage added on the way out
ExitProceedsSlipUp(qty, price, slip, comm) ==
    FMul(FMul(qty, price), FAdd(R(1), slip))

\* line 34
ExitProceeds(qty, price, slip, comm) == FMul(FMul(qty, price), FSub(R(1), slip))

\* lines 23-34: one group of the loop over todays_signals.groupby("ticker")
ApplySignal(st, sig, price, t, slip, comm) ==
    LET o == Outcome(st.positions, sig, price, t)
    IN  IF o = "enter" THEN
            LET qty == EnterQty(st.cash, price)
            IN  [cash |-> FSub(st.cash, EnterCost(qty, price, slip, comm)),
                 positions |-> [u \in DOMAIN st.positions \cup {t} |->
                                  IF u = t THEN <<qty, price>> ELSE st.positions[u]]]
        ELSE IF o = "exit" THEN
            [cash |-> FAdd(st.cash, ExitProceeds(st.positions[t][1], price, slip, comm)),
             positions |-> [u \in DOMAIN st.positions \ {t} |-> st.positions[u]]]
        ELSE st

RECURSIVE SumHeld(_, _, _, _)
\* lines 37-39: the sum of qty * price over positions.items()
SumHeld(pos, held, pnl, dt) ==
    IF held = {} THEN R(0)
    ELSE LET t == CHOOSE u \in held : TRUE
         IN  FAdd(FMul(pos[t][1], PriceGet(pnl, dt, t, pos[t][2])),
                  SumHeld(pos, held \ {t}, pnl, dt))

\* lines 36-39
MarkToMarketValue(c, pos, pnl, dt) == FAdd(c, SumHeld(pos, DOMAIN pos, pnl, dt))

\* a point is recorded only when the value changed
EquityAppendOnChange(eq, dt, mtm) ==
    IF eq # <<>> /\ eq[Len(eq)][2] = mtm THEN eq ELSE Append(eq, <<dt, mtm>>)

\* line 40
EquityAppend(eq, dt, mtm) == Append(eq, <<dt, mtm>>)

NoStep == [op |-> "init", t |-> "", signal |-> 0, price |-> NaN,
           cash |-> R(0), positions |-> NoPositions]

NoCall == [op |-> "none", sma_periods |-> <<>>, use_common_dates |-> TRUE,
           min_stocks_for_calculation |-> 1]
NoResult == [status |-> "none", index |-> <<>>, rows |-> <<>>]

\* no BreadthCalculator is in use
BrIdle ==
    /\ data = [t \in {} |-> <<>>]
    /\ fill_pad = FALSE
    /\ bcall = NoCall
    /\ bresult = NoResult

NoTopN == [op |-> "none", n |-> 0, date |-> 0]
NoSeries == [date_idx |-> 0, top |-> <<>>]

\* no RankingHandler is in use
RkIdle ==
    /\ metric = <<>>
    /\ rcall = NoTopN
    /\ rresult = NoSeries

NoPanelCall == [op |-> "none", use_union_dates |-> FALSE, columns |-> <<>>]

\* get_panel has not been called
GpIdle ==
    /\ gcall = NoPanelCall
    /\ gpanel = <<>>

NoKpi == [status |-> "none"]

\* no KPIReport is in use
KpIdle ==
    /\ equity_curve = <<>>
    /\ kpi = NoKpi

BtInit ==
    /\ panel \in Panels
    /\ cash_start \in CashStarts
    /\ slippage \in Slippages
    /\ commission = R(0)
    /\ signals = <<>>
    /\ pc = "constructed"
    /\ di = 0
    /\ pending = <<>>
    /\ cash = R(0)
    /\ positions = NoPositions
    /\ equity = <<>>
    /\ last = NoStep
    /\ honoured = FALSE
    /\ trace = <<>>

Init == BtInit /\ BrIdle /\ RkIdle /\ GpIdle /\ KpIdle

\* lines 12-19: run(signals) up to the first date's groups
run ==
    /\ pc = "constructed"
    /\ \E sigs \in SignalStreams :
         /\ signals' = sigs
         /\ pending' = IF dates(panel) = <<>> THEN <<>> ELSE Groups(sigs, dates(panel)[1])
    /\ pc' = IF dates(panel) = <<>> THEN "done" ELSE "trade"
    /\ di' = 1
    /\ cash' = cash_start
    /\ positions' = NoPositions
    /\ equity' = <<>>
    /\ last' = [NoStep EXCEPT !.op = "run"]
    /\ honoured' = FALSE
    /\ trace' = <<>>
    /\ UNCHANGED <<panel, cash_start, slippage, commission>>
    /\ UNCHANGED brvars
    /\ UNCHANGED <<rkvars, gpvars, kpvars>>

\* one iteration of the loop of line 22, taking the branch o
Trade(o) ==
    /\ pc = "trade"
    /\ pending # <<>>
    /\ LET dt == dates(panel)[di]
           t == Head(pending)
           signal == FirstSignal(signals, dt, t)
           price == PriceGet(panel, dt, t, NaN)
           out == Outcome(positions, signal, price, t)
           st == ApplySignal([cash |-> cash, positions |-> positions],
                             signal, price, t, slippage, commission)
       IN  /\ (IF out = "raise" THEN "skip" ELSE out) = o
           /\ pc' = IF out = "raise" THEN "error" ELSE pc
           /\ cash' = st.cash
           /\ positions' = st.positions
           /\ last' = [op |-> o, t |-> t, signal |-> signal, price |-> price,
                       cash |-> cash, positions |-> positions]
    /\ honoured' = (honoured \/ o \in {"enter", "exit"})
    /\ pending' = Tail(pending)
    /\ UNCHANGED <<panel, cash_start, slippage, commission, signals, di, equity, trace>>
    /\ UNCHANGED brvars
    /\ UNCHANGED <<rkvars, gpvars, kpvars>>

\* lines 27-31
Enter ==
    /\ pending # <<>>
    /\ Trade("enter")

\* lines 32-34
Exit ==
    /\ pending # <<>>
    /\ Trade("exit")

\* line 25
Skip ==
    /\ pending # <<>>
    /\ Trade("skip")

\* neither condition of lines 27 and 32 holds
Drop ==
    /\ pending # <<>>
    /\ Trade("drop")

\* lines 36-40, then lines 17-19 of the next iteration, or line 42 after the last date
MarkToMarket ==
    /\ pc = "trade"
    /\ pending = <<>>
    /\ LET dt == dates(panel)[di]
       IN  equity' = EquityAppend(equity, dt, MarkToMarketValue(cash, positions, panel, dt))
    /\ di' = di + 1
    /\ IF di < Len(dates(panel))
         THEN /\ pc' = "trade"
              /\ pending' = Groups(signals, dates(panel)[di + 1])
         ELSE /\ pc' = "done"
              /\ pending' = <<>>
    /\ last' = [NoStep EXCEPT !.op = "mtm", !.cash = cash, !.positions = positions]
    /\ trace' = Append(trace, [cash |-> cash, positions |-> positions, honoured |-> honoured])
    /\ honoured' = FALSE
    /\ UNCHANGED <<panel, cash_start, slippage, commission, signals, cash, positions>>
    /\ UNCHANGED brvars
    /\ UNCHANGED <<rkvars, gpvars, kpvars>>

Next == run \/ Enter \/ Exit \/ Skip \/ Drop \/ MarkToMarket

Spec == Init /\ [][Next]_vars

\* the panels of RunSpec: the close of "A" is 1 on the first date and 2 or
\* without value afterwards
RunPanels ==
    {p \in Panels : p[1]["A"] = R(1) /\ \A d \in 2..NumDates : p[d]["A"] \in {R(2), NaN}}

InitRun ==
    /\ Init
    /\ panel \in RunPanels

\* every signal stream against a few fixed panels and one configuration
RunSpec == InitRun /\ [][Next]_vars

(* --------------------- Backtester.run as a function --------------------- *)
RECURSIVE DayTrades(_, _, _, _, _, _, _)
\* lines 22-34 for the groups of one date
DayTrades(st, groups, pnl, sigs, dt, slip, comm) ==
    IF groups = <<>> THEN st
    ELSE DayTrades(ApplySignal(st, FirstSignal(sigs, dt, Head(groups)),
                               PriceGet(pnl, dt, Head(groups), NaN),
                               Head(groups), slip, comm),
                   Tail(groups), pnl, sigs, dt, slip, comm)

RECURSIVE RunFrom(_, _, _, _, _, _, _, _)
\* lines 17-40 from the i-th date on; res holds the equity and the per-date
\* cash and positions so far
RunFrom(st, res, i, pnl, sigs, slip, comm, ds) ==
    IF i > Len(ds) THEN res
    ELSE LET dt == ds[i]
             after == DayTrades(st, Groups(sigs, dt), pnl, sigs, dt, slip, comm)
             mtm == MarkToMarketValue(after.cash, after.positions, pnl, dt)
         IN  RunFrom(after,
                     [equity |-> EquityAppend(res.equity, dt, mtm),
                      days |-> Append(res.days, after)],
                     i + 1, pnl, sigs, slip, comm, ds)

\* Backtester(pnl, c, slip, comm).run(sigs)
Run(pnl, sigs, c, slip, comm) ==
    RunFrom([cash |-> c, positions |-> NoPositions],
            [equity |-> <<>>, days |-> <<>>], 1, pnl, sigs, slip, comm, dates(pnl))

(* --------------------------- BreadthCalculator -------------------------- *)
\* number of calendar dates the loaded files may cover
NumBreadthDates == 2
\* longest list of windows handed to compute_multiple_sma
MaxWindows == 2

BreadthTickers == <<"A", "B">>

\* the close an instrument's file may hold for a date (NoRow: no such row)
FileCells(t) == IF t = "A" THEN {NoRow, R(1), R(2)} ELSE {NoRow, R(1)}

\* DataHandler.data: every loaded file has at least one row (line 39)
DataSets ==
    {d \in [SeqRange(BreadthTickers) -> [1..NumBreadthDates -> {NoRow, R(1), R(2)}]] :
        \A t \in SeqRange(BreadthTickers) :
            /\ \A i \in 1..NumBreadthDates : d[t][i] \in FileCells(t)
            /\ \E i \in 1..NumBreadthDates : d[t][i] # NoRow}

\* windows a caller may pass: one that is not positive, one whose half-window
\* floor max(1, N//2) is 1 and one whose floor is 2
SmaPeriods == {0, 2, 4}
MinStocks == {0, 1, 2}

SortedDates(S) == SelectSeq([i \in 1..NumBreadthDates |-> i], LAMBDA d : d \in S)

\* df.index of the ticker t
IndexOf(dh, t) == {d \in 1..NumBreadthDates : dh[t][d] # NoRow}

\* DataHandler._get_common_index, as a set
CommonIndex(dh) == {d \in 1..NumBreadthDates : \A t \in DOMAIN dh : d \in IndexOf(dh, t)}

\* DataHandler.get_union_index, as a set
UnionIndex(dh) == {d \in 1..NumBreadthDates : \E t \in DOMAIN dh : d \in IndexOf(dh, t)}

\* _get_close_data: the dates the close prices are aligned to
TargetDates(dh, use_common_dates) ==
    IF use_common_dates /\ CommonIndex(dh) # {}
      THEN SortedDates(CommonIndex(dh))
      ELSE SortedDates(UnionIndex(dh))

\* _get_close_data: df["close"].reindex(target_dates) for every ticker
CloseData(dh, use_common_dates) ==
    LET target == TargetDates(dh, use_common_dates)
    IN  [t \in DOMAIN dh |->
            [i \in DOMAIN target |->
                IF target[i] \in IndexOf(dh, t) THEN dh[t][target[i]] ELSE NaN]]

RECURSIVE FFill(_, _)
\* the last value of col that is not NaN at or before row i
FFill(col, i) ==
    IF i = 0 THEN NaN
    ELSE IF ~isnan(col[i]) THEN col[i]
    ELSE FFill(col, i - 1)

\* close.pct_change() of one column at row i
PctChange(col, i, pad) ==
    IF i = 1 THEN NaN
    ELSE LET cur == IF pad THEN FFill(col, i) ELSE col[i]
             prev == IF pad THEN FFill(col, i - 1) ELSE col[i - 1]
         IN  FSub(FDiv(cur, prev), R(1))

RECURSIVE SumOver(_, _)
SumOver(col, rows) ==
    IF rows = {} THEN R(0)
    ELSE LET i == CHOOSE j \in rows : TRUE
         IN  FAdd(col[i], SumOver(col, rows \ {i}))

Max(a, b) == IF a >= b THEN a ELSE b

\* close.rolling(window=period, min_periods=max(1, period//2)).mean() at row i
RollingMean(col, i, period) ==
    LET obs == {j \in Max(1, i - period + 1)..i : ~isnan(col[j])}
    IN  IF Cardinality(obs) >= Max(1, period \div 2)
          THEN FDiv(SumOver(col, obs), R(Cardinality(obs)))
          ELSE NaN

\* variant: every instrument is counted
ValidReturnsAllColumns(close, i, pad) ==
    Cardinality(DOMAIN close)

\* valid_returns at row i
ValidReturns(close, i, pad) ==
    Cardinality({t \in DOMAIN close : ~isnan(PctChange(close[t], i, pad))})

\* variant: a date without a valid comparison gets the ratio 0
PctAboveSmaZeroWhenNone(close, i, period) ==
    LET above == Cardinality({t \in DOMAIN close :
                                 FLt(RollingMean(close[t], i, period), close[t][i])})
        valid == Cardinality({t \in DOMAIN close :
                                 /\ ~isnan(close[t][i])
                                 /\ ~isnan(RollingMean(close[t], i, period))})
    IN  IF valid > 0 THEN Frac(above, valid) ELSE R(0)

\* np.where(valid_comparisons > 0, above_sma / valid_comparisons, np.nan) at row i
PctAboveSma(close, i, period) ==
    LET above == Cardinality({t \in DOMAIN close :
                                 FLt(RollingMean(close[t], i, period), close[t][i])})
        valid == Cardinality({t \in DOMAIN close :
                                 /\ ~isnan(close[t][i])
                                 /\ ~isnan(RollingMean(close[t], i, period))})
    IN  IF valid > 0 THEN Frac(above, valid) ELSE NaN

\* a row of the result whose fields are all NaN
MaskedRow(period) ==
    [advancers |-> NaN, decliners |-> NaN, unchanged |-> NaN, total_stocks |-> NaN,
     adv_ratio |-> NaN, valid_for_sma |-> NaN,
     pct_above_sma |-> [q \in {period} |-> NaN]]

\* lines 83-125 for row i
BreadthRow(close, i, period, min_stocks, pad) ==
    LET ret(t) == PctChange(close[t], i, pad)
        adv == Cardinality({t \in DOMAIN close : FPos(ret(t))})
        dec == Cardinality({t \in DOMAIN close : FLt(ret(t), R(0))})
        unchanged == Cardinality({t \in DOMAIN close : ret(t) = R(0)})
        valid_sma == Cardinality({t \in DOMAIN close :
                                     /\ ~isnan(close[t][i])
                                     /\ ~isnan(RollingMean(close[t], i, period))})
    IN  IF ValidReturns(close, i, pad) >= min_stocks
          THEN [advancers |-> R(adv), decliners |-> R(dec), unchanged |-> R(unchanged),
                total_stocks |-> R(ValidReturns(close, i, pad)),
                adv_ratio |-> IF adv + dec > 0 THEN Frac(adv, adv + dec) ELSE NaN,
                valid_for_sma |-> R(valid_sma),
                pct_above_sma |-> [q \in {period} |-> PctAboveSma(close, i, period)]]
          ELSE MaskedRow(period)

\* BreadthCalculator.compute
compute(dh, sma_period, use_common_dates, min_stocks, pad) ==
    IF sma_period < 1 THEN [status |-> "ValueError", index |-> <<>>, rows |-> <<>>]
    ELSE LET close == CloseData(dh, use_common_dates)
             target == TargetDates(dh, use_common_dates)
         IN  [status |-> "ok", index |-> target,
              rows |-> [i \in DOMAIN target |->
                           BreadthRow(close, i, sma_period, min_stocks, pad)]]

RECURSIVE AddWindows(_, _, _)
\* lines 154-168: the loop over sma_periods[1:]
AddWindows(rows, close, periods) ==
    IF periods = <<>> THEN rows
    ELSE LET period == Head(periods)
             added == [i \in DOMAIN rows |->
                          [rows[i] EXCEPT !.pct_above_sma =
                              [q \in DOMAIN rows[i].pct_above_sma \cup {period} |->
                                  IF q = period THEN PctAboveSma(close, i, period)
                                  ELSE rows[i].pct_above_sma[q]]]]
         IN  AddWindows(IF period < 1 THEN rows ELSE added, close, Tail(periods))

\* BreadthCalculator.compute_multiple_sma
compute_multiple_sma(dh, sma_periods, use_common_dates, pad) ==
    IF sma_periods = <<>> THEN [status |-> "ValueError", index |-> <<>>, rows |-> <<>>]
    ELSE LET result == compute(dh, sma_periods[1], use_common_dates, 1, pad)
         IN  IF result.status # "ok" \/ Len(sma_periods) = 1 THEN result
             ELSE [result EXCEPT !.rows =
                      AddWindows(result.rows, CloseData(dh, use_common_dates),
                                 Tail(sma_periods))]

\* no Backtester is in use
BtIdle ==
    /\ panel = <<>>
    /\ cash_start = R(0)
    /\ slippage = R(0)
    /\ commission = R(0)
    /\ signals = <<>>
    /\ pc = "idle"
    /\ di = 0
    /\ pending = <<>>
    /\ cash = R(0)
    /\ positions = NoPositions
    /\ equity = <<>>
    /\ last = NoStep
    /\ honoured = FALSE
    /\ trace = <<>>

\* BreadthCalculator(data_handler) over loaded data
BrInit ==
    /\ data \in DataSets
    /\ fill_pad \in BOOLEAN
    /\ bcall = NoCall
    /\ bresult = NoResult

\* a call of compute
CallCompute ==
    /\ bcall.op = "none"
    /\ \E period \in SmaPeriods, common \in BOOLEAN, min_stocks \in MinStocks :
         /\ bcall' = [op |-> "compute", sma_periods |-> <<period>>,
                      use_common_dates |-> common,
                      min_stocks_for_calculation |-> min_stocks]
         /\ bresult' = compute(data, period, common, min_stocks, fill_pad)
    /\ UNCHANGED <<data, fill_pad>>
    /\ UNCHANGED btvars
    /\ UNCHANGED <<rkvars, gpvars, kpvars>>

\* a call of compute_multiple_sma
CallComputeMultipleSma ==
    /\ bcall.op = "none"
    /\ \E n \in 0..MaxWindows, common \in BOOLEAN :
         \E periods \in [1..n -> SmaPeriods] :
             /\ bcall' = [op |-> "compute_multiple_sma", sma_periods |-> periods,
                          use_common_dates |-> common,
                          min_stocks_for_calculation |-> 1]
             /\ bresult' = compute_multiple_sma(data, periods, common, fill_pad)
    /\ UNCHANGED <<data, fill_pad>>
    /\ UNCHANGED btvars
    /\ UNCHANGED <<rkvars, gpvars, kpvars>>

BreadthNext == CallCompute \/ CallComputeMultipleSma

BreadthInit == BrInit /\ BtIdle /\ RkIdle /\ GpIdle /\ KpIdle

BreadthSpec == BreadthInit /\ [][BreadthNext]_vars

(* ------------------------ DataHandler.get_panel ------------------------- *)
\* lines 112-116: the dates the frames are aligned to
PanelDates(dh, use_union_dates) ==
    IF use_union_dates \/ CommonIndex(dh) = {}
      THEN SortedDates(UnionIndex(dh))
      ELSE SortedDates(CommonIndex(dh))

\* variant: the rows the ticker's own file has among the target dates
ReindexOwnRows(dh, t, target) ==
    SelectSeq([i \in DOMAIN target |->
                  [date |-> target[i], ticker |-> t,
                   close |-> IF target[i] \in IndexOf(dh, t) THEN dh[t][target[i]] ELSE NaN]],
              LAMBDA row : row.date \in IndexOf(dh, t))

\* lines 131-132: df_subset.reindex(target_dates) with the ticker column
Reindex(dh, t, target) ==
    [i \in DOMAIN target |->
        [date |-> target[i], ticker |-> t,
         close |-> IF target[i] \in IndexOf(dh, t) THEN dh[t][target[i]] ELSE NaN]]

RECURSIVE Concat(_, _, _)
\* lines 118-139: the frames of the tickers one under the other
Concat(dh, tickers, target) ==
    IF tickers = <<>> THEN <<>>
    ELSE Reindex(dh, Head(tickers), target) \o Concat(dh, Tail(tickers), target)

\* the index key <<date, ticker>> of a is below that of b
KeyBefore(a, b) ==
    \/ a.date < b.date
    \/ a.date = b.date /\ \E i, j \in DOMAIN BreadthTickers :
                              /\ BreadthTickers[i] = a.ticker
                              /\ BreadthTickers[j] = b.ticker
                              /\ i < j

\* line 142: set_index(["date", "ticker"]).sort_index(); rows keep their
\* place among rows with the same key
SortIndex(rows) ==
    LET rank(i) == Cardinality({j \in DOMAIN rows :
                                   \/ KeyBefore(rows[j], rows[i])
                                   \/ ~KeyBefore(rows[i], rows[j]) /\ j < i})
    IN  [k \in DOMAIN rows |-> rows[CHOOSE i \in DOMAIN rows : rank(i) = k - 1]]

\* the columns of every loaded file besides the date
FileColumns == <<"close">>

\* the columns argument: <<>> stands for None
ColumnArgs == {<<>>, <<"close">>, <<"volume">>, <<"close", "volume">>}

\* lines 121-128: the columns of df_subset
SubsetColumns(columns) ==
    LET available_cols == SelectSeq(columns, LAMBDA col : col \in SeqRange(FileColumns))
    IN  IF columns # <<>> /\ available_cols # <<>> THEN available_cols ELSE FileColumns

\* DataHandler.get_panel(use_union_dates, columns); the frame keeps the
\* close of every row when close is among the columns of df_subset
get_panel(dh, use_union_dates, columns) ==
    IF "close" \in SeqRange(SubsetColumns(columns))
      THEN SortIndex(Concat(dh, BreadthTickers, PanelDates(dh, use_union_dates)))
      ELSE <<>>

\* DataHandler(folder) with the files loaded
DhInit ==
    /\ data \in DataSets
    /\ fill_pad = FALSE
    /\ bcall = NoCall
    /\ bresult = NoResult
    /\ gcall = NoPanelCall
    /\ gpanel = <<>>

\* a call of get_panel
CallGetPanel ==
    /\ gcall.op = "none"
    /\ \E use_union_dates \in BOOLEAN, columns \in ColumnArgs :
         /\ gcall' = [op |-> "get_panel", use_union_dates |-> use_union_dates,
                      columns |-> columns]
         /\ gpanel' = get_panel(data, use_union_dates, columns)
    /\ UNCHANGED <<btvars, brvars, rkvars, kpvars>>

PanelInit == DhInit /\ BtIdle /\ RkIdle /\ KpIdle

PanelSpec == PanelInit /\ [][CallGetPanel]_vars

(* ---------------------------- RankingHandler ---------------------------- *)
\* number of dates in the index of a metric table
NumMetricDates == 2
\* largest n handed to get_top_n
MaxTopN == 2

MetricTickers == {"A", "B", "C"}
MetricValues == {NaN, R(1), R(2)}

\* metric tables: row i is the row of date i
Metrics == [1..NumMetricDates -> [MetricTickers -> MetricValues]]

\* the date argument: 0 stands for None, NumMetricDates + 1 is not in the index
DateArgs == 0..(NumMetricDates + 1)

\* line 71: the index of metric.dropna(how='all'), ascending
CleanIndex(m) ==
    SelectSeq([i \in DOMAIN m |-> i],
              LAMBDA d : \E t \in DOMAIN m[d] : ~isnan(m[d][t]))

\* lines 77-83: the date whose row is ranked, for a table with a row left
DateIdx(clean, date) ==
    IF date = 0 THEN clean[Len(clean)]
    ELSE IF date \in SeqRange(clean) THEN date
    ELSE clean[Len(clean)]

\* variant: ascending order
SortValuesAscending(row) ==
    LET defined == {t \in DOMAIN row : ~isnan(row[t])}
        k == Cardinality(defined)
    IN  {o \in [1..k -> defined] :
            /\ \A i, j \in 1..k : i # j => o[i] # o[j]
            /\ \A i \in 1..(k - 1) : ~FLt(row[o[i + 1]], row[o[i]])}

\* line 92: the orders row.sort_values(ascending=False) may put the labels
\* of the defined values in; equal values may come in either order
SortValues(row) ==
    LET defined == {t \in DOMAIN row : ~isnan(row[t])}
        k == Cardinality(defined)
    IN  {o \in [1..k -> defined] :
            /\ \A i, j \in 1..k : i # j => o[i] # o[j]
            /\ \A i \in 1..(k - 1) : ~FLt(row[o[i]], row[o[i + 1]])}

\* Series.head(n) for n >= 0
Head_n(series, n) == SubSeq(series, 1, IF n < Len(series) THEN n ELSE Len(series))

\* RankingHandler.get_top_n: the series the call may return, each as
\* <<label, value>> pairs in order, with the date it selected
get_top_n(m, n, date) ==
    LET clean == CleanIndex(m)
    IN  IF clean = <<>> THEN {NoSeries}
        ELSE LET date_idx == DateIdx(clean, date)
                 row == m[date_idx]
             IN  IF \A t \in DOMAIN row : isnan(row[t])
                   THEN {[date_idx |-> date_idx, top |-> <<>>]}
                   ELSE {[date_idx |-> date_idx,
                          top |-> Head_n([i \in DOMAIN o |-> <<o[i], row[o[i]]>>], n)] :
                            o \in SortValues(row)}

\* RankingHandler(panel) with a metric table at hand
RkInit ==
    /\ metric \in Metrics
    /\ rcall = NoTopN
    /\ rresult = NoSeries

\* a call of get_top_n
CallGetTopN ==
    /\ rcall.op = "none"
    /\ \E n \in 0..MaxTopN, date \in DateArgs :
         /\ rcall' = [op |-> "get_top_n", n |-> n, date |-> date]
         /\ rresult' \in get_top_n(metric, n, date)
    /\ UNCHANGED metric
    /\ UNCHANGED <<btvars, brvars, gpvars, kpvars>>

RankInit == RkInit /\ BtIdle /\ BrIdle /\ GpIdle /\ KpIdle

RankSpec == RankInit /\ [][CallGetTopN]_vars

(* ------------------------------ KPIReport ------------------------------- *)
\* longest equity curve handed to KPIReport
MaxCurveLen == 3

EquityValues == {R(50), R(100), R(150), R(200)}

\* equity curves: the equity column, one value per date
Curves == UNION {[1..n -> EquityValues] : n \in 0..MaxCurveLen}

\* line 9: eq["equity"].pct_change().fillna(0)
Ret(curve) ==
    [i \in DOMAIN curve |->
        IF i = 1 THEN R(0) ELSE FSub(FDiv(curve[i], curve[i - 1]), R(1))]

RECURSIVE SumSeq(_)
SumSeq(xs) == IF xs = <<>> THEN R(0) ELSE FAdd(Head(xs), SumSeq(Tail(xs)))

\* line 12: the square of eq["ret"].std(), the sample variance (ddof = 1);
\* NaN for fewer than two values
Variance(xs) ==
    IF Len(xs) < 2 THEN NaN
    ELSE LET mean == FDiv(SumSeq(xs), R(Len(xs)))
             sq == [i \in DOMAIN xs |-> FMul(FSub(xs[i], mean), FSub(xs[i], mean))]
         IN  FDiv(SumSeq(sq), R(Len(xs) - 1))

\* eq["equity"].cummax() at row i
CumMax(curve, i) ==
    CHOOSE m \in {curve[j] : j \in 1..i} : \A j \in 1..i : ~FLt(m, curve[j])

\* line 14: (eq["equity"] / eq["equity"].cummax() - 1).min()
MaxDrawdown(curve) ==
    LET dd == {FSub(FDiv(curve[i], CumMax(curve, i)), R(1)) : i \in DOMAIN curve}
    IN  CHOOSE m \in dd : \A x \in dd : ~FLt(x, m)

\* KPIReport.summary.  The annualised return (1 + total_ret) ** (252 / len) - 1
\* is kept as its base and exponent, the volatility std * 252 ** 0.5 as the
\* variance it is the root of; Sharpe = ann_ret / vol is recorded by whether
\* it is NaN: vol = 0 takes the else branch of line 13 and a NaN vol, which
\* is != 0, makes the quotient NaN.
summary(curve) ==
    IF curve = <<>> THEN [status |-> "IndexError"]
    ELSE LET total_ret == FSub(FDiv(curve[Len(curve)], curve[1]), R(1))
             variance == Variance(Ret(curve))
         IN  [status |-> "ok",
              total_ret |-> total_ret,
              ann_ret |-> [base |-> FAdd(R(1), total_ret),
                           exponent |-> Frac(252, Len(curve))],
              variance |-> variance,
              sharpe_isnan |-> (variance = R(0) \/ isnan(variance)),
              max_drawdown |-> MaxDrawdown(curve)]

\* KPIReport(equity_curve)
KpInit ==
    /\ equity_curve \in Curves
    /\ kpi = NoKpi

\* a call of summary
CallSummary ==
    /\ kpi.status = "none"
    /\ kpi' = summary(equity_curve)
    /\ UNCHANGED equity_curve
    /\ UNCHANGED <<btvars, brvars, rkvars, gpvars>>

KpiInit == KpInit /\ BtIdle /\ BrIdle /\ RkIdle /\ GpIdle

KpiSpec == KpiInit /\ [][CallSummary]_vars

(* ------------------------- claims: Backtester -------------------------- *)
PanelDateSet == {d \in DOMAIN panel : \E t \in DOMAIN panel[d] : panel[d][t] # NoRow}
LastEquity == equity[Len(equity)][2]
TradeOps == {"enter", "exit", "skip", "drop"}
DaysOfTrace == [i \in DOMAIN trace |-> [cash |-> trace[i].cash, positions |-> trace[i].positions]]

\* C1: the equity sequence has exactly one point per distinct date of the
\* panel's date axis, in strictly ascending date order, whatever the signals
\* are and however many of them are honoured.
C1_OnePointPerDate ==
    /\ pc = "constructed" => equity = <<>>
    /\ pc = "trade" => Len(equity) = di - 1
    /\ pc = "done" => /\ Len(equity) = Cardinality(PanelDateSet)
                      /\ {equity[i][1] : i \in DOMAIN equity} = PanelDateSet
    /\ \A i, j \in DOMAIN equity : i < j => equity[i][1] < equity[j][1]

\* a finished run with a date on which a trade was made and a date without one
C1_Witness ==
    /\ pc = "done"
    /\ Len(equity) = NumDates
    /\ \E i \in DOMAIN trace : trace[i].honoured
    /\ \E i \in DOMAIN trace : ~trace[i].honoured

\* C2: an honoured enter takes exactly 10% of the cash held at that moment
\* out of cash, and the quantity is that allocation divided by the slipped
\* price p * (1 + s).
C2_EnterAllocatesTenPercent ==
    last.op = "enter" =>
        LET alloc == FMul(Frac(1, 10), last.cash)
            slipped == FMul(last.price, FAdd(R(1), slippage))
        IN  /\ cash = FSub(last.cash, alloc)
            /\ positions[last.t][1] = FDiv(alloc, slipped)
            /\ FMul(positions[last.t][1], slipped) = alloc

\* C3: an honoured exit adds quantity * p * (1 - s) to cash, removes the
\* instrument from the positions and changes no other position; an instrument
\* that is not held stays not held until an enter for it is honoured, and the
\* mark-to-market value does not depend on the close of an instrument that is
\* not held.
C3_ExitClosesWholePosition ==
    /\ last.op = "exit" =>
          /\ cash = FAdd(last.cash,
                         FMul(FMul(last.positions[last.t][1], last.price),
                              FSub(R(1), slippage)))
          /\ DOMAIN positions = DOMAIN last.positions \ {last.t}
          /\ \A u \in DOMAIN positions : positions[u] = last.positions[u]
    /\ last.op \in TradeOps \cup {"mtm"} =>
          \A t \in SeqRange(SignalTickers) :
              (t \notin DOMAIN last.positions /\ ~(last.op = "enter" /\ last.t = t))
                  => t \notin DOMAIN positions
    /\ last.op = "mtm" =>
          LET dt == equity[Len(equity)][1]
          IN  \A t \in DOMAIN panel[dt] \ DOMAIN positions :
                  \A c \in {NaN, R(1), R(2), R(4)} :
                      MarkToMarketValue(cash, positions,
                                        [panel EXCEPT ![dt][t] = c], dt) = LastEquity

\* an exit is honoured with slippage while another instrument stays held
C3_Witness ==
    /\ last.op = "exit"
    /\ slippage # R(0)
    /\ positions # NoPositions
    /\ last.t \notin DOMAIN positions

RECURSIVE C4_SumAtCloseOrEntry(_, _)
C4_SumAtCloseOrEntry(held, dt) ==
    IF held = {} THEN R(0)
    ELSE LET t == CHOOSE u \in held : TRUE
             defined == /\ t \in DOMAIN panel[dt]
                        /\ panel[dt][t] # NoRow
                        /\ ~isnan(panel[dt][t])
         IN  FAdd(FMul(positions[t][1],
                       IF defined THEN panel[dt][t] ELSE positions[t][2]),
                  C4_SumAtCloseOrEntry(held \ {t}, dt))

\* C4: after a date's trades the appended equity value is cash plus, over the
\* open positions, quantity times the date's close when it is defined and
\* times the entry price otherwise (also when the close is present with no
\* value), and it is never undefined.
C4_EquityIsMarkToMarket ==
    last.op = "mtm" =>
        /\ LastEquity = FAdd(cash, C4_SumAtCloseOrEntry(DOMAIN positions,
                                                        equity[Len(equity)][1]))
        /\ ~isnan(LastEquity)

\* C5: an enter for a held instrument, an exit for an instrument that is not
\* held and any signal whose close has no value leave cash and positions as
\* they were; a date without an honoured signal ends with the cash and
\* positions the previous date ended with.
C5_UnactionableSignalChangesNothing ==
    /\ (/\ last.op \in TradeOps
        /\ \/ isnan(last.price)
           \/ last.signal = 1 /\ last.t \in DOMAIN last.positions
           \/ last.signal = -1 /\ last.t \notin DOMAIN last.positions)
          => cash = last.cash /\ positions = last.positions
    /\ \A i \in DOMAIN trace :
          ~trace[i].honoured =>
              /\ trace[i].cash = IF i = 1 THEN cash_start ELSE trace[i - 1].cash
              /\ trace[i].positions =
                     IF i = 1 THEN NoPositions ELSE trace[i - 1].positions

\* an enter signal arrives for an instrument that is held
C5_Witness ==
    /\ last.op = "drop"
    /\ last.signal = 1
    /\ last.t \in DOMAIN last.positions
    /\ ~isnan(last.price)

Perms(seq) == {[i \in DOMAIN seq |-> seq[f[i]]] : f \in Permutations(DOMAIN seq)}

\* C6 as stated: every reordering of the signal stream yields the same equity
\* sequence, also when a (date, instrument) key occurs more than once.
C6_OrderIndependent ==
    pc = "done" =>
        \A p \in Perms(signals) :
            Run(panel, p, cash_start, slippage, commission).equity = equity

\* the first entry listed for every (date, instrument) key has the same direction
C6_SameFirstDirections(p, q) ==
    \A i \in DOMAIN p :
        FirstSignal(p, p[i].date, p[i].ticker) = FirstSignal(q, p[i].date, p[i].ticker)

\* C6 (amended): every reordering of the signal stream in which the first
\* entry listed for each (date, instrument) key keeps its direction yields
\* the same equity sequence, also with several instruments on one date.
C6_OrderIndependentGivenFirstDirections ==
    pc = "done" =>
        \A p \in Perms(signals) :
            C6_SameFirstDirections(signals, p) =>
                Run(panel, p, cash_start, slippage, commission).equity = equity

\* two instruments are entered on the first date, one of them listed twice,
\* and the price of the first changes afterwards
C6_Witness ==
    /\ pc = "done"
    /\ ~isnan(panel[1]["A"])
    /\ panel[2]["A"] # panel[1]["A"]
    /\ \E i, j, k \in DOMAIN signals :
          /\ i # k
          /\ signals[i] = [date |-> 1, ticker |-> "A", signal |-> 1]
          /\ signals[k] = signals[i]
          /\ signals[j] = [date |-> 1, ticker |-> "B", signal |-> 1]
    /\ "A" \in DOMAIN trace[1].positions
    /\ "B" \in DOMAIN trace[1].positions

\* C7: runs that differ only in the commission produce the same cash,
\* positions and equity on every date.
C7_CommissionHasNoEffect ==
    pc = "done" =>
        \A c \in Commissions :
            Run(panel, signals, cash_start, slippage, c)
                = [equity |-> equity, days |-> DaysOfTrace]

\* a finished run that traded on two dates, compared under another commission
C7_Witness ==
    /\ pc = "done"
    /\ \E c \in Commissions : c # commission
    /\ \A i \in DOMAIN trace : trace[i].honoured
    /\ positions = NoPositions
    /\ slippage # R(0)

\* the branch the loop of line 22 takes next
C8_NextOutcome ==
    LET dt == dates(panel)[di]
        t == Head(pending)
    IN  Outcome(positions, FirstSignal(signals, dt, t), PriceGet(panel, dt, t, NaN), t)

\* C8: a run never ends in an error: until the last date is done its next
\* step is defined and raises nothing, it returns one point per date, and a
\* signal for an unknown instrument, with a direction other than +1 and -1 or
\* with a close without value is skipped without changing cash or positions
\* (a signal on a date outside the panel is never visited).
C8_NeverRaises ==
    /\ pc \in {"constructed", "trade", "done"}
    /\ pc = "trade" => di \in DOMAIN dates(panel)
    /\ (pc = "trade" /\ pending # <<>>) => C8_NextOutcome \in TradeOps
    /\ pc = "done" => Len(equity) = Len(dates(panel))
    /\ last.op \in TradeOps => last.t \in SeqRange(Groups(signals, dates(panel)[di]))
    /\ (/\ last.op \in TradeOps
        /\ \/ last.t \notin SeqRange(Tickers)
           \/ last.signal \notin {1, -1}
           \/ isnan(last.price))
          => cash = last.cash /\ positions = last.positions

\* a finished run over a stream with an unknown instrument, a direction that
\* is neither +1 nor -1 and a date outside the panel
C8_Witness ==
    /\ pc = "done"
    /\ Len(equity) = NumDates
    /\ \E i \in DOMAIN signals : signals[i].ticker \notin SeqRange(Tickers)
    /\ \E i \in DOMAIN signals : signals[i].signal \notin {1, -1}
    /\ \E i \in DOMAIN signals : signals[i].date \notin PanelDateSet

\* C9: every open position has quantity > 0 and entry price > 0, positions
\* are keyed by instrument (one per instrument), and an instrument's position
\* appears with its honoured enter, disappears with its honoured exit and
\* is unchanged by every other step.
C9_PositionsWellFormed ==
    /\ DOMAIN positions \subseteq SeqRange(Tickers)
    /\ \A t \in DOMAIN positions : FPos(positions[t][1]) /\ FPos(positions[t][2])
    /\ last.op \in TradeOps \cup {"mtm"} =>
          \A t \in SeqRange(SignalTickers) :
              IF last.op = "enter" /\ last.t = t
                THEN t \notin DOMAIN last.positions /\ t \in DOMAIN positions
              ELSE IF last.op = "exit" /\ last.t = t
                THEN t \in DOMAIN last.positions /\ t \notin DOMAIN positions
              ELSE /\ t \in DOMAIN positions <=> t \in DOMAIN last.positions
                   /\ t \in DOMAIN positions => positions[t] = last.positions[t]

\* a position entered on the first date is still held, unchanged, after a
\* later date on which another instrument was entered
C9_Witness ==
    /\ pc = "done"
    /\ Len(trace) >= 2
    /\ \E t \in DOMAIN trace[1].positions :
          /\ t \in DOMAIN positions
          /\ positions[t] = trace[1].positions[t]
          /\ DOMAIN positions # {t}

(* ---------------------- claims: BreadthCalculator ----------------------- *)
\* every field of the row, the pct_above_sma_{period} columns included, is NaN
C10_AllFieldsUndefined(row) ==
    /\ isnan(row.advancers)
    /\ isnan(row.decliners)
    /\ isnan(row.unchanged)
    /\ isnan(row.total_stocks)
    /\ isnan(row.adv_ratio)
    /\ isnan(row.valid_for_sma)
    /\ \A q \in DOMAIN row.pct_above_sma : isnan(row.pct_above_sma[q])

\* C10: in the result of compute and of compute_multiple_sma, every field of
\* a date whose count of instruments with a defined return is below the
\* configured minimum is undefined, the pct_above_sma_{period} columns of the
\* additional windows included.
C10_BelowMinimumIsUndefined ==
    bresult.status = "ok" =>
        \A i \in DOMAIN bresult.rows :
            ValidReturns(CloseData(data, bcall.use_common_dates), i, fill_pad)
                    < bcall.min_stocks_for_calculation
                => C10_AllFieldsUndefined(bresult.rows[i])

\* x is undefined or lies in [0, 1]
C11_UndefinedOrUnit(x) == isnan(x) \/ (~FLt(x, R(0)) /\ ~FLt(R(1), x))

\* instruments whose return at row i is defined and not zero
C11_Movers(close, i) ==
    {t \in DOMAIN close : /\ ~isnan(PctChange(close[t], i, fill_pad))
                          /\ PctChange(close[t], i, fill_pad) # R(0)}

\* instruments with a defined close and a defined moving average at row i
C11_Comparable(close, i, period) ==
    {t \in DOMAIN close : /\ ~isnan(close[t][i])
                          /\ ~isnan(RollingMean(close[t], i, period))}

\* C11: on every date adv_ratio and every pct_above_sma_N are undefined or
\* in [0, 1]; adv_ratio is undefined whenever advancers + decliners = 0, and
\* pct_above_sma_N is undefined whenever no instrument has both a defined
\* close and a defined moving average on that date.
C11_RatiosUndefinedOrInUnitInterval ==
    bresult.status = "ok" =>
        LET close == CloseData(data, bcall.use_common_dates)
        IN  \A i \in DOMAIN bresult.rows :
                /\ C11_UndefinedOrUnit(bresult.rows[i].adv_ratio)
                /\ C11_Movers(close, i) = {} => isnan(bresult.rows[i].adv_ratio)
                /\ \A q \in DOMAIN bresult.rows[i].pct_above_sma :
                       /\ C11_UndefinedOrUnit(bresult.rows[i].pct_above_sma[q])
                       /\ C11_Comparable(close, i, q) = {}
                              => isnan(bresult.rows[i].pct_above_sma[q])

\* one result has a date that is not masked and has no mover and no valid
\* comparison, and a date with an advancer and a pct_above_sma_N strictly
\* between 0 and 1
C11_Witness ==
    /\ bresult.status = "ok"
    /\ \E i \in DOMAIN bresult.rows :
          /\ ~isnan(bresult.rows[i].total_stocks)
          /\ isnan(bresult.rows[i].adv_ratio)
          /\ \E q \in DOMAIN bresult.rows[i].pct_above_sma :
                C11_Comparable(CloseData(data, bcall.use_common_dates), i, q) = {}
    /\ \E i \in DOMAIN bresult.rows :
          /\ FPos(bresult.rows[i].adv_ratio)
          /\ \E q \in DOMAIN bresult.rows[i].pct_above_sma :
                /\ FLt(R(0), bresult.rows[i].pct_above_sma[q])
                /\ FLt(bresult.rows[i].pct_above_sma[q], R(1))

\* C12: compute_multiple_sma with a non-empty window list either returns a
\* table with one pct_above_sma_{period} column for each requested window,
\* base and additional, or fails with ValueError when a requested window is
\* not positive; it never returns with a requested window's column missing.
\* An empty window list fails with ValueError.
C12_EveryWindowHasColumn ==
    bcall.op = "compute_multiple_sma" =>
        IF bcall.sma_periods = <<>> THEN bresult.status = "ValueError"
        ELSE \/ /\ bresult.status = "ok"
                /\ \A i \in DOMAIN bresult.rows :
                       DOMAIN bresult.rows[i].pct_above_sma = SeqRange(bcall.sma_periods)
             \/ /\ bresult.status = "ValueError"
                /\ \E k \in DOMAIN bcall.sma_periods : bcall.sma_periods[k] < 1

\* x is a non-negative integer
C17_IsCount(x) == ~isnan(x) /\ x[2] = 1 /\ x[1] >= 0

\* the row i of the result is not masked by the minimum-instrument threshold
C17_NotMasked(i) ==
    ValidReturns(CloseData(data, bcall.use_common_dates), i, fill_pad)
        >= bcall.min_stocks_for_calculation

\* instruments whose close at row i is above their moving average
C17_Above(close, i, period) ==
    {t \in DOMAIN close : FLt(RollingMean(close[t], i, period), close[t][i])}

\* C17: in every row of compute that is not masked by the minimum-instrument
\* threshold, advancers + decliners + unchanged = total_stocks, each count is
\* a non-negative integer, total_stocks is at most the number of instruments
\* and valid_for_sma is at least the number of instruments counted as above
\* their moving average.
C17_CountsPartitionTotal ==
    bresult.status = "ok" =>
        \A i \in DOMAIN bresult.rows :
            C17_NotMasked(i) =>
                LET row == bresult.rows[i]
                IN  /\ C17_IsCount(row.advancers)
                    /\ C17_IsCount(row.decliners)
                    /\ C17_IsCount(row.unchanged)
                    /\ C17_IsCount(row.total_stocks)
                    /\ C17_IsCount(row.valid_for_sma)
                    /\ FAdd(FAdd(row.advancers, row.decliners), row.unchanged)
                           = row.total_stocks
                    /\ row.total_stocks[1] <= Cardinality(DOMAIN data)
                    /\ row.valid_for_sma[1] >=
                           Cardinality(C17_Above(CloseData(data, bcall.use_common_dates),
                                                 i, bcall.sma_periods[1]))

\* a result of compute has a row with an advancer and an unchanged
\* instrument, one above its moving average, and a row that is not masked
\* with fewer defined returns than instruments
C17_Witness ==
    /\ bcall.op = "compute"
    /\ bresult.status = "ok"
    /\ \E i \in DOMAIN bresult.rows :
          /\ C17_NotMasked(i)
          /\ bresult.rows[i].advancers = R(1)
          /\ bresult.rows[i].unchanged = R(1)
          /\ C17_Above(CloseData(data, bcall.use_common_dates), i, bcall.sma_periods[1]) # {}
    /\ \E i \in DOMAIN bresult.rows :
          /\ C17_NotMasked(i)
          /\ bresult.rows[i].total_stocks[1] < Cardinality(DOMAIN data)

(* ------------------------ claims: RankingHandler ------------------------ *)
\* C13: get_top_n ranks the row of the requested date when that date is in
\* the metric table and falls back to the last date with a defined value
\* only when the date is omitted or not in the table; when the requested
\* date is in the table and its row has no defined value the result is
\* empty, and it is empty when no date has a defined value.
C13_RequestedDateIsRanked ==
    rcall.op = "get_top_n" =>
        /\ rcall.date \in DOMAIN metric =>
              IF \A t \in MetricTickers : isnan(metric[rcall.date][t])
                THEN rresult.top = <<>>
                ELSE rresult.date_idx = rcall.date
        /\ (rcall.date \notin DOMAIN metric /\ CleanIndex(metric) # <<>>) =>
              rresult.date_idx = CleanIndex(metric)[Len(CleanIndex(metric))]
        /\ CleanIndex(metric) = <<>> => rresult.top = <<>>

\* the labels of the defined values of the row get_top_n selected
C14_Defined == {t \in MetricTickers : ~isnan(metric[rresult.date_idx][t])}

\* C14: for every metric table, every n >= 0 and every date the result of
\* get_top_n has at most n entries, holds no undefined value, is sorted in
\* descending order of value and consists of the min(n, k) largest of the k
\* defined values of the row the call selected.
C14_TopNIsTheLargest ==
    rcall.op = "get_top_n" =>
        LET top == rresult.top
        IN  /\ Len(top) <= rcall.n
            /\ \A i \in DOMAIN top : ~isnan(top[i][2])
            /\ \A i, j \in DOMAIN top : i < j => ~FLt(top[i][2], top[j][2])
            /\ rresult.date_idx = 0 => top = <<>>
            /\ rresult.date_idx # 0 =>
                  /\ Len(top) = IF rcall.n < Cardinality(C14_Defined)
                                  THEN rcall.n ELSE Cardinality(C14_Defined)
                  /\ \A i \in DOMAIN top :
                         /\ top[i][1] \in C14_Defined
                         /\ top[i][2] = metric[rresult.date_idx][top[i][1]]
                  /\ \A i, j \in DOMAIN top : i # j => top[i][1] # top[j][1]
                  /\ \A t \in C14_Defined \ {top[i][1] : i \in DOMAIN top} :
                         \A i \in DOMAIN top : ~FLt(top[i][2], metric[rresult.date_idx][t])

\* a row with three defined values, not all equal, is cut to its two largest
C14_Witness ==
    /\ rcall.op = "get_top_n"
    /\ rcall.n = 2
    /\ Len(rresult.top) = 2
    /\ Cardinality(C14_Defined) = 3
    /\ FLt(rresult.top[2][2], rresult.top[1][2])
    /\ \E t \in C14_Defined : metric[rresult.date_idx][t] = rresult.top[2][2]
                                /\ t \notin {rresult.top[1][1], rresult.top[2][1]}

(* ------------------------- claims: DataHandler -------------------------- *)
\* the date axis the claim names for the call made
C15_Axis ==
    IF gcall.use_union_dates THEN UnionIndex(data)
    ELSE IF CommonIndex(data) = {} THEN UnionIndex(data)
    ELSE CommonIndex(data)

\* C15: the panel of get_panel has a complete rectangular key set: its date
\* axis is the intersection of the loaded instruments' date sets in common
\* mode (the union when the intersection is empty) and their union in union
\* mode, ascending; its instrument axis is the set of loaded instruments;
\* every (date, instrument) pair of the axes is a key, holding NaN on a date
\* the instrument lacks and the instrument's own value otherwise.
C15_PanelIsRectangular ==
    gcall.op = "get_panel" =>
        /\ {gpanel[k].date : k \in DOMAIN gpanel} = C15_Axis
        /\ {gpanel[k].ticker : k \in DOMAIN gpanel} = DOMAIN data
        /\ \A d \in C15_Axis, t \in DOMAIN data :
              \E k \in DOMAIN gpanel :
                  /\ gpanel[k].date = d /\ gpanel[k].ticker = t
                  /\ gpanel[k].close = IF data[t][d] = NoRow THEN NaN ELSE data[t][d]
        /\ Len(gpanel) = Cardinality(C15_Axis) * Cardinality(DOMAIN data)
        /\ \A j, k \in DOMAIN gpanel : j < k => KeyBefore(gpanel[j], gpanel[k])

\* a common-mode call on files without a common date fell back to the union
\* and holds a key with a value and a key with the no-value marker
C15_Witness ==
    /\ gcall.op = "get_panel"
    /\ ~gcall.use_union_dates
    /\ CommonIndex(data) = {}
    /\ \E k \in DOMAIN gpanel : isnan(gpanel[k].close)
    /\ \E k \in DOMAIN gpanel : ~isnan(gpanel[k].close)
    /\ Len(gpanel) >= 4

(* --------------------------- claims: KPIReport -------------------------- *)
\* C16: summary fails with an error, returning no KPI values, whenever the
\* equity curve has fewer than 2 points (0 or 1 point); for a curve of at
\* least 2 points it returns a result whose Sharpe is undefined exactly when
\* the volatility of the period returns is 0, and the flat curve [100, 100]
\* gives total return 0, Sharpe undefined and max drawdown 0.
C16_ShortCurveIsRefused ==
    kpi.status # "none" =>
        /\ Len(equity_curve) < 2 => kpi.status \in {"ValueError", "IndexError"}
        /\ Len(equity_curve) >= 2 =>
              /\ kpi.status = "ok"
              /\ kpi.sharpe_isnan <=> kpi.variance = R(0)
        /\ equity_curve = <<R(100), R(100)>> =>
              /\ kpi.total_ret = R(0)
              /\ kpi.ann_ret.base = R(1)
              /\ kpi.sharpe_isnan
              /\ kpi.max_drawdown = R(0)

====
